---- MODULE Spec2Model ----
(***************************************************************************)
(* Model of the user endpoints of healthy-api:                             *)
(*   app/service/user_service.py        the User Store                     *)
(*   app/controller/user_controller.py  the request handlers               *)
(* The state is the content of the database (user rows, the owner column   *)
(* of the structure rows, the favourites association rows) together with   *)
(* the last request handled and the response it produced.  Every handler   *)
(* is a pure operator from (database, inputs) to (database, response);     *)
(* the actions apply the handlers to the current database.                 *)
(***************************************************************************)
EXTENDS Integers, FiniteSets, Sequences, TLC

VARIABLES users, owner, favourites, req, resp

vars == <<users, owner, favourites, req, resp>>

(* ------------------------------ bounds --------------------------------- *)
MaxUsers == 2

UserIds == 1..MaxUsers
\* The structures stored by the structure endpoints.
StructIds == {42}
\* The instants at which rows are inserted (values of created_on).
Times == {1, 2}
Usernames == {"alice", "bob"}
Passwords == {"p", "q"}

(* ------------------------- values of the code -------------------------- *)
\* Python None where an integer is expected: a NULL foreign key, the id of a
\* marshalled None, the identity of a request without a verified token.
Null == 0
\* Python None where a string is expected (a marshalled missing attribute).
NullStr == "null"
\* A key that the JSON payload does not carry.
NoKey == "<no key>"

Callers == UserIds \cup {Null}
PayloadNames == Usernames \cup {NoKey}
PayloadPasswords == Passwords \cup {NoKey}

\* The names that module app.service.user_service defines or imports.
ServiceAttrs ==
  {"with_polymorphic", "DB", "Structure", "User",
   "get_all_user", "add_user", "get_user", "update_user", "delete_user",
   "get_all_structure_by_user", "get_favourites_by_user"}

\* The database as one value.
DB == [users |-> users, owner |-> owner, favourites |-> favourites]

Has(calls, name) == \E i \in DOMAIN calls : calls[i] = name

(* ----------------------- the model class User -------------------------- *)
\* The password setter of User stores a salted hash of the password.
generate_password_hash(p) == "pbkdf2:sha256$" \o p

\* User(username=..., password=...): a new row, its id and created_on are
\* filled in by the storage when the row is inserted.
User(id, username, password, created_on) ==
  [id |-> id, username |-> username,
   password_hash |-> generate_password_hash(password),
   created_on |-> created_on]

\* The storage's uniqueness constraint on User.username.
unique_usernames(tbl) ==
  \A i, j \in DOMAIN tbl : i # j => tbl[i].username # tbl[j].username

\* DB.session.commit(): the pending rows are written unless a constraint is
\* violated, in which case nothing is written and IntegrityError is raised.
commit(db, pending) ==
  IF unique_usernames(pending.users)
    THEN [db |-> pending, error |-> "none"]
    ELSE [db |-> db, error |-> "IntegrityError"]

\* Deleting a user row: its favourites association rows go with it and the
\* structures it owned lose their owner.
cascade_delete(db, user_id) ==
  [users |-> [i \in DOMAIN db.users \ {user_id} |-> db.users[i]],
   owner |-> [s \in StructIds |->
                IF db.owner[s] = user_id THEN Null ELSE db.owner[s]],
   favourites |-> {f \in db.favourites : f[1] # user_id}]

(* --------------------------- user_service ------------------------------ *)
get_all_user(db) == {db.users[i] : i \in DOMAIN db.users}

add_user_nocommit(db, user) ==
  [db |-> db, error |-> "none", calls |-> <<"add">>]

add_user(db, user) ==
  LET pending == [db EXCEPT !.users =
                    [i \in DOMAIN db.users \cup {user.id} |->
                       IF i = user.id THEN user ELSE db.users[i]]]
      c == commit(db, pending)
  IN  [db |-> c.db, error |-> c.error, calls |-> <<"add", "commit">>]

\* User.query.get(user_id): the row, or None.
found(db, user_id) == user_id \in DOMAIN db.users

get_user(db, user_id) ==
  IF found(db, user_id) THEN db.users[user_id]
  ELSE [id |-> Null, username |-> NullStr,
        password_hash |-> NullStr, created_on |-> Null]

\* DB.session.merge(user): the attributes set on `user` are copied onto the
\* row with the same primary key (inserted when there is none).
update_user(db, user) ==
  LET row == [id |-> user.id, username |-> user.username,
              password_hash |-> user.password_hash,
              created_on |-> user.created_on]
      pending ==
        [users |-> [i \in DOMAIN db.users \cup {user.id} |->
                      IF i = user.id THEN row ELSE db.users[i]],
         owner |-> [s \in StructIds |->
                      IF s \in user.structures THEN user.id
                      ELSE IF db.owner[s] = user.id THEN Null
                      ELSE db.owner[s]],
         favourites |-> db.favourites]
      c == commit(db, pending)
  IN  [db |-> c.db, error |-> c.error, calls |-> <<"merge", "commit">>]

delete_user_unchecked(db, user_id) ==
  IF found(db, user_id)
    THEN [db |-> cascade_delete(db, user_id), error |-> "none",
          calls |-> <<"get_user", "delete", "commit">>]
    ELSE [db |-> db, error |-> "UnmappedInstanceError",
          calls |-> <<"get_user", "delete">>]

delete_user(db, user_id) ==
  IF found(db, user_id)
    THEN [db |-> cascade_delete(db, user_id), error |-> "none",
          calls |-> <<"get_user", "delete", "commit">>]
    ELSE [db |-> db, error |-> "none", calls |-> <<"get_user">>]

get_all_structure_by_user(db, user_id) ==
  {s \in StructIds : db.owner[s] = user_id}

get_favourites_by_user(db, user_id) ==
  {s \in StructIds : <<user_id, s>> \in db.favourites}

(* ------------------------- user_controller ----------------------------- *)
\* What a handler produces: the database it leaves, and the response.
Response(db, status, error, body, calls) ==
  [db |-> db, status |-> status, error |-> error, body |-> body,
   calls |-> calls]

EmptyBody == [kind |-> "empty"]
ErrorBody == [kind |-> "error"]

\* An exception that leaves the handler: the boundary answers 500.
Raise(db, error, calls) == Response(db, 500, error, ErrorBody, calls)

\* @jwt_required on a request that carries no verified identity.
NoAuthorization(db) == Response(db, 401, "NoAuthorizationError", ErrorBody, <<>>)

\* abort(401)
Abort401(db, calls) == Response(db, 401, "Unauthorized", ErrorBody, calls)

\* marshalling with USER_MODEL: id, username, created_on (None gives nulls).
USER_MODEL(user) ==
  [kind |-> "user", id |-> user.id, username |-> user.username,
   created_on |-> user.created_on]

\* structures_to_geojson of a collection of structures.
structures_to_geojson(structs) == [kind |-> "features", items |-> structs]

\* GET /users
UserListController_get(db) ==
  Response(db, 200, "none",
           [kind |-> "users",
            items |-> {USER_MODEL(u) : u \in get_all_user(db)}],
           <<"get_all_user">>)

UserListController_post_plain(db, username, password, new_id, now) ==
  IF username = NoKey \/ password = NoKey
    THEN Raise(db, "KeyError", <<>>)
    ELSE LET user == [id |-> new_id, username |-> username,
                      password_hash |-> password, created_on |-> now]
             r == add_user(db, user)
         IN  IF r.error # "none"
               THEN Raise(r.db, r.error, <<"add_user">> \o r.calls)
               ELSE Response(r.db, 201, "none", USER_MODEL(user),
                             <<"add_user">> \o r.calls)

\* POST /users
UserListController_post(db, username, password, new_id, now) ==
  IF username = NoKey \/ password = NoKey
    THEN Raise(db, "KeyError", <<>>)
    ELSE LET user == User(new_id, username, password, now)
             r == add_user(db, user)
         IN  IF r.error # "none"
               THEN Raise(r.db, r.error, <<"add_user">> \o r.calls)
               ELSE Response(r.db, 201, "none", USER_MODEL(user),
                             <<"add_user">> \o r.calls)

\* GET /users/<user_id>
UserController_get(db, user_id) ==
  Response(db, 200, "none", USER_MODEL(get_user(db, user_id)),
           <<"get_user">>)

updated_user_fresh(db, user_id, username, password) ==
  LET user == get_user(db, user_id)
  IN  [id |-> user_id, username |-> username,
       password_hash |-> IF password # NoKey
                           THEN generate_password_hash(password)
                           ELSE user.password_hash,
       created_on |-> Null,
       structures |-> {}]

\* The transient User that put builds from the stored row and the payload.
updated_user(db, user_id, username, password) ==
  LET user == get_user(db, user_id)
  IN  [id |-> user_id, username |-> username,
       password_hash |-> IF password # NoKey
                           THEN generate_password_hash(password)
                           ELSE user.password_hash,
       created_on |-> user.created_on,
       structures |-> get_all_structure_by_user(db, user_id)]

put_body(db, user_id, username, password) ==
  IF username = NoKey THEN Raise(db, "KeyError", <<"get_user">>)
  ELSE IF ~found(db, user_id)
    THEN Raise(db, "AttributeError", <<"get_user">>)
  ELSE LET upd == updated_user(db, user_id, username, password)
           r == update_user(db, upd)
       IN  IF r.error # "none"
             THEN Raise(r.db, r.error, <<"get_user", "update_user">> \o r.calls)
             ELSE Response(r.db, 200, "none", USER_MODEL(upd),
                           <<"get_user", "update_user">> \o r.calls)

UserController_put_self_only(db, caller, user_id, username, password) ==
  IF caller = Null THEN NoAuthorization(db)
  ELSE IF user_id # caller THEN Abort401(db, <<>>)
  ELSE put_body(db, user_id, username, password)

\* PUT /users/<user_id>
UserController_put(db, caller, user_id, username, password) ==
  IF caller = Null THEN NoAuthorization(db)
  ELSE put_body(db, user_id, username, password)

UserController_delete_anyone(db, caller, user_id) ==
  IF caller = Null THEN NoAuthorization(db)
  ELSE LET r == delete_user(db, user_id)
       IN  IF r.error # "none"
             THEN Raise(r.db, r.error, <<"delete_user">> \o r.calls)
             ELSE Response(r.db, 204, "none", EmptyBody,
                           <<"delete_user">> \o r.calls)

\* DELETE /users/<user_id>
UserController_delete(db, caller, user_id) ==
  IF caller = Null THEN NoAuthorization(db)
  ELSE IF user_id # caller THEN Abort401(db, <<>>)
  ELSE LET r == delete_user(db, user_id)
       IN  IF r.error # "none"
             THEN Raise(r.db, r.error, <<"delete_user">> \o r.calls)
             ELSE Response(r.db, 204, "none", EmptyBody,
                           <<"delete_user">> \o r.calls)

\* GET /users/<user_id>/structures
StructureUserController_get(db, user_id) ==
  Response(db, 200, "none",
           structures_to_geojson(get_all_structure_by_user(db, user_id)),
           <<"get_all_structure_by_user">>)

\* Evaluating user_service.<name>, which precedes the call: AttributeError
\* unless the module has the name.  The handlers below look up
\* get_favorites_by_user, add_favorite_to_user and delete_favorite; the
\* module defines get_favourites_by_user only, so none of them resolves.
service_lookup(db, name, calls) ==
  IF name \in ServiceAttrs
    THEN Response(db, 200, "none", EmptyBody, calls \o <<name>>)
    ELSE Raise(db, "AttributeError", calls)

\* GET /users/<user_id>/favorites
FavoritesUserController_get(db, user_id) ==
  service_lookup(db, "get_favorites_by_user", <<>>)

\* POST /users/<user_id>/favorites
FavoritesUserController_post(db, caller, user_id, structure_id) ==
  IF caller = Null THEN NoAuthorization(db)
  ELSE IF structure_id = Null THEN Raise(db, "KeyError", <<>>)
  ELSE service_lookup(db, "add_favorite_to_user", <<>>)

FavoriteUserDeleteController_delete_anyone(db, caller, user_id, favorite_id) ==
  IF caller = Null THEN NoAuthorization(db)
  ELSE service_lookup(db, "delete_favorite", <<>>)

\* DELETE /users/<user_id>/favorites/<favorite_id>
FavoriteUserDeleteController_delete(db, caller, user_id, favorite_id) ==
  IF caller = Null THEN NoAuthorization(db)
  ELSE IF user_id = caller
    THEN service_lookup(db, "delete_favorite", <<>>)
  ELSE Abort401(db, <<>>)

(* --------------------------- the state machine ------------------------- *)
UserAttrs ==
  [username : Usernames,
   password_hash : {generate_password_hash(p) : p \in Passwords},
   created_on : Times]

\* A database the application can run on: rows with their own id as key,
\* unique usernames, and foreign keys that point at stored users.
IsDatabase(d) ==
  /\ DOMAIN d.users \subseteq UserIds
  /\ \A i \in DOMAIN d.users :
       /\ d.users[i].id = i
       /\ [username |-> d.users[i].username,
           password_hash |-> d.users[i].password_hash,
           created_on |-> d.users[i].created_on] \in UserAttrs
  /\ unique_usernames(d.users)
  /\ d.owner \in [StructIds -> (DOMAIN d.users) \cup {Null}]
  /\ d.favourites \subseteq (DOMAIN d.users) \X StructIds

Request(op, caller, user_id, username, password, structure_id) ==
  [op |-> op, caller |-> caller, user_id |-> user_id, username |-> username,
   password |-> password, structure_id |-> structure_id]

\* No request is being handled.
NoRequest == Request("none", Null, Null, NoKey, NoKey, Null)
NoResponse ==
  [status |-> 0, error |-> "none", body |-> EmptyBody, calls |-> <<>>]

\* One request handled to completion (requests are handled one at a time):
\* the handler's database is committed and its response recorded.
Handle(request, r) ==
  /\ req = NoRequest
  /\ users' = r.db.users
  /\ owner' = r.db.owner
  /\ favourites' = r.db.favourites
  /\ req' = request
  /\ resp' = [status |-> r.status, error |-> r.error, body |-> r.body,
              calls |-> r.calls]

\* The application starts on an existing database.  The structure rows and
\* the favourites rows are written by the structure endpoints, which are
\* outside the two files modelled here.
Init ==
  /\ \E U \in SUBSET UserIds :
       \E attrs \in [U -> UserAttrs] :
         LET tbl == [i \in U |->
                       [id |-> i, username |-> attrs[i].username,
                        password_hash |-> attrs[i].password_hash,
                        created_on |-> attrs[i].created_on]]
         IN  /\ unique_usernames(tbl)
             /\ users = tbl
             /\ owner \in [StructIds -> U \cup {Null}]
             /\ favourites \in SUBSET (U \X StructIds)
  /\ req = NoRequest
  /\ resp = NoResponse

\* The response has been sent: the request context is discarded.
Teardown ==
  /\ req # NoRequest
  /\ req' = NoRequest
  /\ resp' = NoResponse
  /\ UNCHANGED <<users, owner, favourites>>

ListUsers ==
  Handle(Request("list_users", Null, Null, NoKey, NoKey, Null),
         UserListController_get(DB))

\* The primary keys the storage may give the next inserted row: any unused
\* one (one past the largest when all of UserIds are in use).
NewIds ==
  IF UserIds \ DOMAIN users # {} THEN UserIds \ DOMAIN users
  ELSE {MaxUsers + 1}

\* The storage picks the new primary key and stamps created_on with the time
\* of the insert.  Every request is handled, also on a full table; only an
\* insert that would store an id beyond MaxUsers is cut off.
CreateUser ==
  \E username \in PayloadNames, password \in PayloadPasswords,
     new_id \in NewIds, now \in Times :
    LET r == UserListController_post(DB, username, password, new_id, now)
    IN  /\ DOMAIN r.db.users \subseteq UserIds
        /\ Handle(Request("create_user", Null, Null, username, password, Null),
                  r)

GetUser ==
  \E user_id \in UserIds :
    Handle(Request("get_user", Null, user_id, NoKey, NoKey, Null),
           UserController_get(DB, user_id))

PutUser ==
  \E caller \in Callers, user_id \in UserIds,
     username \in PayloadNames, password \in PayloadPasswords :
    Handle(Request("update_user", caller, user_id, username, password, Null),
           UserController_put(DB, caller, user_id, username, password))

DeleteUser ==
  \E caller \in Callers, user_id \in UserIds :
    Handle(Request("delete_user", caller, user_id, NoKey, NoKey, Null),
           UserController_delete(DB, caller, user_id))

ListStructures ==
  \E user_id \in UserIds :
    Handle(Request("list_structures", Null, user_id, NoKey, NoKey, Null),
           StructureUserController_get(DB, user_id))

ListFavorites ==
  \E user_id \in UserIds :
    Handle(Request("list_favorites", Null, user_id, NoKey, NoKey, Null),
           FavoritesUserController_get(DB, user_id))

AddFavorite ==
  \E caller \in Callers, user_id \in UserIds,
     structure_id \in StructIds \cup {Null} :
    Handle(Request("add_favorite", caller, user_id, NoKey, NoKey, structure_id),
           FavoritesUserController_post(DB, caller, user_id, structure_id))

DeleteFavorite ==
  \E caller \in Callers, user_id \in UserIds, favorite_id \in StructIds :
    Handle(Request("delete_favorite", caller, user_id, NoKey, NoKey, favorite_id),
           FavoriteUserDeleteController_delete(DB, caller, user_id, favorite_id))

Next ==
  \/ ListUsers
  \/ CreateUser
  \/ GetUser
  \/ PutUser
  \/ DeleteUser
  \/ ListStructures
  \/ ListFavorites
  \/ AddFavorite
  \/ DeleteFavorite
  \/ Teardown

Spec == Init /\ [][Next]_vars

TypeOK ==
  /\ IsDatabase(DB)
  /\ req.caller \in Callers
  /\ resp.status \in {0, 200, 201, 204, 401, 500}

(* ------------------------------ properties ----------------------------- *)
\* The database after the step.
DBnext == [users |-> users', owner |-> owner', favourites |-> favourites']

StoreUnchanged == users' = users /\ owner' = owner /\ favourites' = favourites

\* Everything stored about the users other than u is the same after the step.
OthersUnchanged(u) ==
  \A v \in UserIds \ {u} :
    /\ found(DBnext, v) <=> found(DB, v)
    /\ found(DB, v) => users'[v] = users[v]
    /\ get_all_structure_by_user(DBnext, v) = get_all_structure_by_user(DB, v)
    /\ get_favourites_by_user(DBnext, v) = get_favourites_by_user(DB, v)

\* C1: a DELETE /users/B whose verified identity A differs from B is answered
\* 401, never calls user_service.delete_user and leaves users, structures and
\* favourites as they were.
C1_SelfOnlyDeleteUser ==
  [][(/\ req'.op = "delete_user"
      /\ req'.caller # Null
      /\ req'.caller # req'.user_id)
     => /\ resp'.status = 401
        /\ ~Has(resp'.calls, "delete_user")
        /\ StoreUnchanged]_vars

C1_Witness ==
  /\ req.op = "delete_user"
  /\ req.caller # Null
  /\ req.caller # req.user_id
  /\ found(DB, req.user_id)
  /\ get_favourites_by_user(DB, req.user_id) # {}
  /\ resp.status = 401

\* C2: a DELETE /users/B/favorites/f whose verified identity A differs from B
\* is answered 401 and leaves B's favourites as they were; a 204, a call of
\* delete_favorite or a change of the favourites happens only when A = B.
C2_SelfOnlyDeleteFavorite ==
  [][req'.op = "delete_favorite" /\ req'.caller # Null
     => /\ req'.caller # req'.user_id
           => /\ resp'.status = 401
              /\ ~Has(resp'.calls, "delete_favorite")
              /\ StoreUnchanged
        /\ (\/ resp'.status = 204
            \/ Has(resp'.calls, "delete_favorite")
            \/ favourites' # favourites)
           => req'.caller = req'.user_id]_vars

C2_Witness ==
  /\ req.op = "delete_favorite"
  /\ req.caller # Null
  /\ req.caller # req.user_id
  /\ req.structure_id \in get_favourites_by_user(DB, req.user_id)
  /\ resp.status = 401

\* C3: an authenticated add of favourite s for user u completes without error
\* and puts s in the favourites of u; a removal by u completes without error
\* and takes it out; listing completes without error and returns the
\* favourites of u; the favourites of the other users are untouched.
C3_FavoritesRoundTrip ==
  [][/\ (req'.op = "add_favorite" /\ req'.caller # Null
                                  /\ req'.structure_id # Null)
        => /\ resp'.error = "none"
           /\ req'.structure_id \in get_favourites_by_user(DBnext, req'.user_id)
           /\ OthersUnchanged(req'.user_id)
     /\ (req'.op = "delete_favorite" /\ req'.caller = req'.user_id)
        => /\ resp'.error = "none"
           /\ req'.structure_id \notin get_favourites_by_user(DBnext, req'.user_id)
           /\ OthersUnchanged(req'.user_id)
     /\ req'.op = "list_favorites"
        => /\ resp'.error = "none"
           /\ resp'.body = structures_to_geojson(
                             get_favourites_by_user(DB, req'.user_id))]_vars

\* C4: a PUT /users/u for a stored user u keeps the row's id, its created_on,
\* the structures it owns and its favourites; the password hash stays when
\* the payload has no password and otherwise changes only to the hash of the
\* payload's password; nothing stored about another user changes.
C4_UpdateFrame ==
  [][(req'.op = "update_user" /\ found(DB, req'.user_id))
     => LET u == req'.user_id
        IN  /\ found(DBnext, u)
            /\ users'[u].id = u
            /\ users'[u].created_on = users[u].created_on
            /\ get_all_structure_by_user(DBnext, u)
                 = get_all_structure_by_user(DB, u)
            /\ get_favourites_by_user(DBnext, u)
                 = get_favourites_by_user(DB, u)
            /\ req'.password = NoKey
                 => users'[u].password_hash = users[u].password_hash
            /\ users'[u].password_hash # users[u].password_hash
                 => /\ req'.password # NoKey
                    /\ users'[u].password_hash
                         = generate_password_hash(req'.password)
            /\ OthersUnchanged(u)]_vars

C4_Witness ==
  /\ req.op = "update_user"
  /\ resp.status = 200
  /\ req.password # NoKey
  /\ users[req.user_id].password_hash = generate_password_hash(req.password)
  /\ users[req.user_id].username = req.username
  /\ get_all_structure_by_user(DB, req.user_id) # {}
  /\ get_favourites_by_user(DB, req.user_id) # {}

\* C5: a self-delete of an id that is not stored answers 204 without error,
\* issues no delete and no commit and leaves the store as it was; after any
\* self-delete the id is absent, and deleting it once more neither fails nor
\* changes the store.
C5_DeleteIdempotent ==
  [][(req'.op = "delete_user" /\ req'.caller = req'.user_id)
     => LET u == req'.user_id
            again == delete_user(DBnext, u)
        IN  /\ resp'.status = 204
            /\ resp'.error = "none"
            /\ ~found(DBnext, u)
            /\ again.error = "none"
            /\ again.db = DBnext
            /\ ~Has(again.calls, "delete") /\ ~Has(again.calls, "commit")
            /\ ~found(DB, u)
                 => /\ StoreUnchanged
                    /\ ~Has(resp'.calls, "delete")
                    /\ ~Has(resp'.calls, "commit")]_vars

C5_Witness ==
  /\ req.op = "delete_user"
  /\ req.caller = req.user_id
  /\ resp.status = 204
  /\ ~Has(resp.calls, "commit")
  /\ users # << >>

\* C6: a GET or an authenticated PUT of an id that is not stored is answered
\* 404 (the store is left as it was by both, so the id is still absent).
C6_LookupMissIsNotFound ==
  (/\ req.op \in {"get_user", "update_user"}
   /\ req.op = "update_user" => req.caller # Null
   /\ ~found(DB, req.user_id))
  => resp.status = 404

\* C7: every stored password_hash is a hash and not a plaintext password, and
\* every user in a response carries id, username and created_on only, none
\* of them a password.
UserShape(b) ==
  /\ DOMAIN b = {"kind", "id", "username", "created_on"}
  /\ b.username \notin Passwords

C7_PasswordConfidential ==
  /\ \A i \in DOMAIN users : users[i].password_hash \notin Passwords
  /\ resp.body.kind = "user" => UserShape(resp.body)
  /\ resp.body.kind = "users" => \A b \in resp.body.items : UserShape(b)
  /\ (req.op = "create_user" /\ resp.status = 201)
       => users[resp.body.id].password_hash # req.password
  /\ (req.op = "update_user" /\ resp.status = 200)
       => users[resp.body.id].password_hash # req.password

C7_Witness ==
  /\ req.op = "create_user"
  /\ resp.status = 201
  /\ users[resp.body.id].username = req.username
  /\ users[resp.body.id].password_hash = generate_password_hash(req.password)

\* C8: creating a user whose username is already stored fails with the
\* storage's uniqueness violation and leaves the stored users as they were;
\* no two stored users ever share a username.
C8_DuplicateUsernameConflict ==
  /\ [][(/\ req'.op = "create_user"
         /\ req'.password # NoKey
         /\ \E i \in DOMAIN users : users[i].username = req'.username)
        => /\ resp'.error = "IntegrityError"
           /\ resp'.status # 201
           /\ StoreUnchanged]_vars
  /\ [](\A i, j \in DOMAIN users :
          users[i].username = users[j].username => i = j)

C8_Witness ==
  /\ req.op = "create_user"
  /\ resp.error = "IntegrityError"
  /\ \E i \in DOMAIN users : users[i].username = req.username
  /\ DOMAIN users = UserIds

\* C9: an unauthenticated add of a favourite is rejected without mutation; an
\* authenticated one, whoever the caller, is not answered 401, adds the
\* structure to the target user's favourites and returns that structure.
C9_AddFavoriteAuthOnly ==
  [][req'.op = "add_favorite"
     => /\ req'.caller = Null => (resp'.status = 401 /\ StoreUnchanged)
        /\ (req'.caller # Null /\ req'.structure_id # Null)
           => /\ resp'.status \notin {401, 500}
              /\ <<req'.user_id, req'.structure_id>> \in favourites'
              /\ resp'.body = structures_to_geojson({req'.structure_id})]_vars

\* C10 as stated: an authenticated PUT /users/B by a caller other than B, B
\* stored, is accepted and replaces B's username and, when the payload has a
\* password, B's password hash.
C10_UpdateByAnyoneAlways ==
  [][(/\ req'.op = "update_user"
      /\ req'.caller \notin {Null, req'.user_id}
      /\ req'.username # NoKey
      /\ found(DB, req'.user_id))
     => /\ resp'.status = 200
        /\ users'[req'.user_id].username = req'.username
        /\ req'.password # NoKey
             => users'[req'.user_id].password_hash
                  = generate_password_hash(req'.password)]_vars

\* C10 amended: the same, provided no other stored user holds the payload's
\* username; when one does, the request fails with the storage's uniqueness
\* violation and nothing changes.  No self-only check is made in either case.
C10_UpdateByAnyone ==
  [][(/\ req'.op = "update_user"
      /\ req'.caller \notin {Null, req'.user_id}
      /\ req'.username # NoKey
      /\ found(DB, req'.user_id))
     => IF \E i \in DOMAIN users \ {req'.user_id} :
              users[i].username = req'.username
          THEN /\ resp'.status = 500
               /\ resp'.error = "IntegrityError"
               /\ StoreUnchanged
          ELSE /\ resp'.status = 200
               /\ users'[req'.user_id].username = req'.username
               /\ req'.password # NoKey
                    => users'[req'.user_id].password_hash
                         = generate_password_hash(req'.password)]_vars

C10_Witness ==
  /\ req.op = "update_user"
  /\ req.caller \notin {Null, req.user_id}
  /\ found(DB, req.caller)
  /\ resp.status = 200
  /\ req.password # NoKey
  /\ users[req.user_id].username = req.username
  /\ users[req.user_id].password_hash = generate_password_hash(req.password)

====
